---- MODULE Spec2Model ----
(***************************************************************************)
(* Model of lacrast/robin: the tiling / stitching utilities of             *)
(* src/zf_unet/utils/img_processing.py (split_img, combine_imgs,           *)
(* process_unet_img, postprocess_img, binarize_img) and the start-up       *)
(* sequence of the training driver unet/train.py (main, gen_data).         *)
(*                                                                         *)
(* An image is a sequence of rows, a row a sequence of pixels.  Python's   *)
(* 0-based coordinates are kept; row y of the array is im[y + 1].          *)
(***************************************************************************)
EXTENDS Integers, Sequences, FiniteSets, TLC

VARIABLES
    pc,         \* position of the running function
    caller,     \* who called split_img / combine_imgs: "test" or "process_unet_img"
    img,        \* the caller's image (never rebound by split_img)
    size_y,     \* split_img's size_y; combine_imgs' size_y = imgs[0].shape[0]
    size_x,     \* split_img's size_x; combine_imgs' size_x = imgs[0].shape[1]
    s_img,      \* split_img's local img (the padded image)
    max_y,      \* the local max_y of the running function
    max_x,      \* the local max_x of the running function
    border_y,   \* split_img's border_y, passed on to combine_imgs
    border_x,   \* split_img's border_x, passed on to combine_imgs
    parts,      \* split_img's parts; process_unet_img's parts
    curr_y,     \* scan position of the running function
    curr_x,     \* scan position of the running function
    imgs,       \* combine_imgs' patch list
    c_img,      \* combine_imgs' local img (the canvas, then the cropped result)
    i,          \* combine_imgs' patch index
    writes,     \* history: the window writes of combine_imgs that succeeded
    out,        \* process_unet_img's img once rebound (line 92 on); binarize_img's result
    calls,      \* history: the calls binarize_img / process_unet_img have made, in order
    predict_args,   \* history: the batch of each model.predict call
    predict_ret,    \* history: the masks each model.predict call returned
    combine_args,   \* history: the arguments of each combine_imgs call of process_unet_img
    fs,         \* train.py: the directories that exist
    train_generator,        \* train.py: state of the generator gen_data(train_dir, ...)
    validation_generator,   \* train.py: state of the generator gen_data(validation_dir, ...)
    model,      \* train.py: "none", "built" (unet()), "compiled", "fitting", "fitted"
    gpus,       \* train.py: args.gpus
    fit_steps   \* train.py: batches fit_generator has drawn

pipeVars == <<out, calls, predict_args, predict_ret, combine_args>>
trainVars == <<fs, train_generator, validation_generator, model, gpus, fit_steps>>
vars == <<pc, caller, img, size_y, size_x, s_img, max_y, max_x, border_y, border_x,
          parts, curr_y, curr_x, imgs, c_img, i, writes, pipeVars, trainVars>>

\* Bounds of the checked inputs.
MaxDim == 5
MaxSize == 4
MaxDrop == 2
MaxOver == 1
MaxPostDim == 3
MaxFitSteps == 3

\* The default patch size of split_img (size_x = 128, size_y = 128).
DefaultSize == 128

\* The constant of cv2.copyMakeBorder's frame in split_img (value=[255, 255, 255]).
PadValue == 255

Min(a, b) == IF a < b THEN a ELSE b
Max(a, b) == IF a > b THEN a ELSE b

---------------------------------------------------------------------------
\* numpy / cv2 array primitives used by the code.

Height(im) == Len(im)
Width(im) == IF Len(im) = 0 THEN 0 ELSE Len(im[1])

\* np.zeros((h, w)) and constant images.
ConstImg(h, w, v) == [y \in 1..h |-> [x \in 1..w |-> v]]

\* Length of the numpy slice a:b of an axis of length n (0 <= a, 0 <= b).
SliceLen(a, b, n) == Max(0, Min(b, n) - Min(a, n))

\* im[y0:y1, x0:x1]
Slice(im, y0, y1, x0, x1) ==
    [r \in 1..SliceLen(y0, y1, Height(im)) |->
        [c \in 1..SliceLen(x0, x1, Width(im)) |-> im[y0 + r][x0 + c]]]

\* Mutant of copyMakeBorder: the whole frame goes before the image.
copyMakeBorder_LeadingOnly(im, top, bottom, left, right, value) ==
    [y \in 1..(Height(im) + top + bottom) |->
        [x \in 1..(Width(im) + left + right) |->
            IF y > top + bottom /\ x > left + right
            THEN im[y - top - bottom][x - left - right]
            ELSE value]]

\* cv2.copyMakeBorder(im, top, bottom, left, right, BORDER_CONSTANT, value)
copyMakeBorder(im, top, bottom, left, right, value) ==
    [y \in 1..(Height(im) + top + bottom) |->
        [x \in 1..(Width(im) + left + right) |->
            IF /\ y > top /\ y <= top + Height(im)
               /\ x > left /\ x <= left + Width(im)
            THEN im[y - top][x - left]
            ELSE value]]

\* numpy's rule for  target[...] = source : every axis of the source has the
\* target's length or length 1.
Broadcastable(sh, sw, th, tw) == (sh = th \/ sh = 1) /\ (sw = tw \/ sw = 1)

\* im[y0:y0+h, x0:x0+w] = patch, for a patch whose shape broadcasts to the window.
SetWindow(im, y0, x0, h, w, patch) ==
    [y \in 1..Height(im) |->
        [x \in 1..Width(im) |->
            IF /\ y > y0 /\ y <= y0 + h /\ x > x0 /\ x <= x0 + w
            THEN patch[IF Height(patch) = 1 THEN 1 ELSE y - y0]
                      [IF Width(patch) = 1 THEN 1 ELSE x - x0]
            ELSE im[y][x]]]

---------------------------------------------------------------------------
\* split_img

\* Mutant of Border: the half is rounded down (the + 1 is missing).
Border_RoundDown(max, size) ==
    IF max % size # 0 THEN (size - (max % size)) \div 2 ELSE 0

\* border = (size - (max % size) + 1) // 2  when max % size != 0, else 0
Border(max, size) ==
    IF max % size # 0 THEN (size - (max % size) + 1) \div 2 ELSE 0

\* Mutant of SplitFits: a strict comparison.
SplitFits_Strict(curr, size, max) == curr + size < max

\* The loop conditions of lines 30 and 32: (curr + size) <= max.
SplitFits(curr, size, max) == curr + size <= max

\* Mutant of Window: the axes are swapped.
Window_Transposed(im, cy, cx, sy, sx) == Slice(im, cx, cx + sx, cy, cy + sy)

\* Line 33: img[curr_y:curr_y + size_y, curr_x:curr_x + size_x]
Window(im, cy, cx, sy, sx) == Slice(im, cy, cy + sy, cx, cx + sx)

\* Lines 15-26: pad the rows, then the columns; parts = [], curr_y = 0.
SplitPad ==
    /\ pc = "split_img"
    /\ LET by == Border(Height(img), size_y)
           bx == Border(Width(img), size_x)
           padY == IF Height(img) % size_y # 0
                   THEN copyMakeBorder(img, by, by, 0, 0, PadValue)
                   ELSE img
           padX == IF Width(img) % size_x # 0
                   THEN copyMakeBorder(padY, 0, 0, bx, bx, PadValue)
                   ELSE padY
       IN /\ border_y' = by
          /\ border_x' = bx
          /\ s_img' = padX
          /\ max_y' = Height(padY)
          /\ max_x' = IF Width(img) % size_x # 0 THEN Width(padX) ELSE Width(img)
    /\ parts' = <<>>
    /\ curr_y' = 0
    /\ pc' = "split_outer"
    /\ UNCHANGED <<caller, img, size_y, size_x, curr_x, imgs, c_img, i, writes,
                   pipeVars, trainVars>>

\* Line 30 true, line 31.
SplitRowBegin ==
    /\ pc = "split_outer"
    /\ SplitFits(curr_y, size_y, max_y)
    /\ curr_x' = 0
    /\ pc' = "split_inner"
    /\ UNCHANGED <<caller, img, size_y, size_x, s_img, max_y, max_x, border_y, border_x,
                   parts, curr_y, imgs, c_img, i, writes,
                   pipeVars, trainVars>>

\* Line 32 true, lines 33-34.
SplitWindow ==
    /\ pc = "split_inner"
    /\ SplitFits(curr_x, size_x, max_x)
    /\ parts' = Append(parts, Window(s_img, curr_y, curr_x, size_y, size_x))
    /\ curr_x' = curr_x + size_x
    /\ UNCHANGED <<pc, caller, img, size_y, size_x, s_img, max_y, max_x, border_y, border_x,
                   curr_y, imgs, c_img, i, writes,
                   pipeVars, trainVars>>

\* Line 32 false, line 35.
SplitRowEnd ==
    /\ pc = "split_inner"
    /\ ~SplitFits(curr_x, size_x, max_x)
    /\ curr_y' = curr_y + size_y
    /\ pc' = "split_outer"
    /\ UNCHANGED <<caller, img, size_y, size_x, s_img, max_y, max_x, border_y, border_x,
                   parts, curr_x, imgs, c_img, i, writes,
                   pipeVars, trainVars>>

\* Line 30 false, line 36: return parts, border_y, border_x.
SplitReturn ==
    /\ pc = "split_outer"
    /\ ~SplitFits(curr_y, size_y, max_y)
    /\ pc' = IF caller = "test" THEN "split_returned" ELSE "p_normalize"
    /\ UNCHANGED <<caller, img, size_y, size_x, s_img, max_y, max_x, border_y, border_x,
                   parts, curr_y, curr_x, imgs, c_img, i, writes,
                   pipeVars, trainVars>>

---------------------------------------------------------------------------
\* combine_imgs

\* The loop conditions of lines 55 and 57: (curr + size) <= max + border * 2,
\* with max already the canvas size.
CombineFits(curr, size, max, border) == curr + size <= max + border * 2

\* Mutant of Crop: the crop keeps the size but starts at the canvas origin.
Crop_FromOrigin(im, by, bx) == Slice(im, 0, Height(im) - 2 * by, 0, Width(im) - 2 * bx)

\* Line 65: img[border_y:img.shape[0] - border_y, border_x:img.shape[1] - border_x]
Crop(im, by, bx) == Slice(im, by, Height(im) - by, bx, Width(im) - bx)

\* Mutant of IndexAfterFailure: the except branch does not take the index back.
IndexAfterFailure_NoRollback(k) == k + 1

\* The index after a window write that raised: except: i -= 1, then i += 1.
IndexAfterFailure(k) == (k - 1) + 1

\* Lines 48-53.  imgs[0] of an empty list raises IndexError, which nothing catches.
CombineBegin ==
    /\ pc = "combine_imgs"
    /\ IF Len(imgs) = 0
       THEN /\ pc' = "combine_raised"
            /\ max_y' = Height(img) + border_y * 2
            /\ max_x' = Width(img) + border_x * 2
            /\ c_img' = ConstImg(Height(img) + border_y * 2, Width(img) + border_x * 2, 0)
            /\ UNCHANGED <<size_y, size_x, curr_y, i>>
       ELSE /\ max_y' = Height(img) + border_y * 2
            /\ max_x' = Width(img) + border_x * 2
            /\ c_img' = ConstImg(Height(img) + border_y * 2, Width(img) + border_x * 2, 0)
            /\ size_y' = Height(imgs[1])
            /\ size_x' = Width(imgs[1])
            /\ curr_y' = 0
            /\ i' = 0
            /\ pc' = "combine_outer"
    /\ writes' = <<>>
    /\ UNCHANGED <<caller, img, s_img, border_y, border_x, parts, curr_x, imgs,
                   pipeVars, trainVars>>

\* Line 55 true, line 56.
CombineRowBegin ==
    /\ pc = "combine_outer"
    /\ CombineFits(curr_y, size_y, max_y, border_y)
    /\ curr_x' = 0
    /\ pc' = "combine_inner"
    /\ UNCHANGED <<caller, img, size_y, size_x, s_img, max_y, max_x, border_y, border_x,
                   parts, curr_y, imgs, c_img, i, writes,
                   pipeVars, trainVars>>

\* Line 57 true, lines 58-63: the window write, or the except branch.
CombineWindow ==
    /\ pc = "combine_inner"
    /\ CombineFits(curr_x, size_x, max_x, border_x)
    /\ LET th == SliceLen(curr_y, curr_y + size_y, Height(c_img))
           tw == SliceLen(curr_x, curr_x + size_x, Width(c_img))
           written == /\ i < Len(imgs)
                      /\ Broadcastable(Height(imgs[i + 1]), Width(imgs[i + 1]), th, tw)
       IN IF written
          THEN /\ c_img' = SetWindow(c_img, curr_y, curr_x, th, tw, imgs[i + 1])
               /\ writes' = Append(writes, [k |-> i, y |-> curr_y, x |-> curr_x,
                                             h |-> th, w |-> tw])
               /\ i' = i + 1
          ELSE /\ i' = IndexAfterFailure(i)
               /\ UNCHANGED <<c_img, writes>>
    /\ curr_x' = curr_x + size_x
    /\ UNCHANGED <<pc, caller, img, size_y, size_x, s_img, max_y, max_x, border_y, border_x,
                   parts, curr_y, imgs,
                   pipeVars, trainVars>>

\* Line 57 false, line 64.
CombineRowEnd ==
    /\ pc = "combine_inner"
    /\ ~CombineFits(curr_x, size_x, max_x, border_x)
    /\ curr_y' = curr_y + size_y
    /\ pc' = "combine_outer"
    /\ UNCHANGED <<caller, img, size_y, size_x, s_img, max_y, max_x, border_y, border_x,
                   parts, curr_x, imgs, c_img, i, writes,
                   pipeVars, trainVars>>

\* Line 55 false, lines 65-66: crop the borders and return.
CombineReturn ==
    /\ pc = "combine_outer"
    /\ ~CombineFits(curr_y, size_y, max_y, border_y)
    /\ c_img' = Crop(c_img, border_y, border_x)
    /\ pc' = IF caller = "test" THEN "combine_returned" ELSE "p_scale"
    /\ UNCHANGED <<caller, img, size_y, size_x, s_img, max_y, max_x, border_y, border_x,
                   parts, curr_y, curr_x, imgs, i, writes,
                   pipeVars, trainVars>>

---------------------------------------------------------------------------
\* cv2.threshold with THRESH_BINARY + THRESH_OTSU, cv2.erode, cv2.dilate.
\*
\* Otsu's threshold is the first grey level i in 0..255 that maximises the
\* between-class variance  n1 * n2 * (s1/n1 - s2/n2)^2 / N^2  of the classes
\* {<= i} and {> i}, levels that leave a class empty being skipped, and 0 when
\* every level is skipped.  The variance is compared exactly, as the fraction
\* (s1*n2 - s2*n1)^2 / (n1*n2); the products exceed 32 bits for images of
\* more than a few pixels, so they are computed on numbers held as sequences
\* of base-2^15 digits, least significant first.

BigBase == 2 ^ 15

RECURSIVE BigOfInt(_)
BigOfInt(n) == IF n = 0 THEN <<>> ELSE <<n % BigBase>> \o BigOfInt(n \div BigBase)

RECURSIVE BigAdd(_, _, _)
BigAdd(a, b, carry) ==
    IF a = <<>> /\ b = <<>>
    THEN BigOfInt(carry)
    ELSE LET x == IF a = <<>> THEN 0 ELSE a[1]
             y == IF b = <<>> THEN 0 ELSE b[1]
             t == x + y + carry
         IN <<t % BigBase>> \o BigAdd(IF a = <<>> THEN a ELSE Tail(a),
                                      IF b = <<>> THEN b ELSE Tail(b),
                                      t \div BigBase)

RECURSIVE BigStrip(_)
BigStrip(a) ==
    IF a # <<>> /\ a[Len(a)] = 0 THEN BigStrip(SubSeq(a, 1, Len(a) - 1)) ELSE a

\* a - b for a >= b
RECURSIVE BigSubDigits(_, _, _)
BigSubDigits(a, b, borrow) ==
    IF a = <<>>
    THEN <<>>
    ELSE LET y == IF b = <<>> THEN 0 ELSE b[1]
             t == a[1] - y - borrow
         IN <<IF t < 0 THEN t + BigBase ELSE t>>
            \o BigSubDigits(Tail(a), IF b = <<>> THEN b ELSE Tail(b),
                            IF t < 0 THEN 1 ELSE 0)

RECURSIVE BigLess(_, _)
BigLess(a, b) ==
    IF Len(a) # Len(b) THEN Len(a) < Len(b)
    ELSE IF a = <<>> THEN FALSE
    ELSE IF a[Len(a)] # b[Len(b)] THEN a[Len(a)] < b[Len(b)]
    ELSE BigLess(SubSeq(a, 1, Len(a) - 1), SubSeq(b, 1, Len(b) - 1))

BigAbsDiff(a, b) ==
    IF BigLess(a, b) THEN BigStrip(BigSubDigits(b, a, 0))
    ELSE BigStrip(BigSubDigits(a, b, 0))

RECURSIVE BigMulDigit(_, _, _)
BigMulDigit(a, m, carry) ==
    IF a = <<>>
    THEN BigOfInt(carry)
    ELSE LET t == a[1] * m + carry
         IN <<t % BigBase>> \o BigMulDigit(Tail(a), m, t \div BigBase)

RECURSIVE BigMul(_, _)
BigMul(a, b) ==
    IF a = <<>> \/ b = <<>>
    THEN <<>>
    ELSE LET rest == BigMul(Tail(a), b)
         IN BigStrip(BigAdd(BigMulDigit(b, a[1], 0),
                            IF rest = <<>> THEN rest ELSE <<0>> \o rest, 0))

\* The grey levels of an image and its histogram.
Levels(im) == UNION {{im[y][x] : x \in 1..Len(im[y])} : y \in 1..Len(im)}

CountOf(im, v) ==
    Cardinality({p \in (1..Height(im)) \X (1..Width(im)) : im[p[1]][p[2]] = v})

\* The grey levels of S in ascending order.
RECURSIVE Ascending(_)
Ascending(S) ==
    IF S = {} THEN <<>>
    ELSE LET m == CHOOSE v \in S : \A u \in S : v <= u
         IN <<m>> \o Ascending(S \ {m})

\* The scan of getThreshVal_Otsu over the grey levels in ascending order.  A
\* level absent from the image leaves both classes, and so the variance, as
\* they were at the level before and cannot raise the maximum, so the scan
\* visits the levels lvs that are present.  n1, s1: pixels and grey sum of the
\* levels already passed; best: [num, den, val] of the maximum so far.
RECURSIVE OtsuScan(_, _, _, _, _, _, _)
OtsuScan(hist, lvs, n1, s1, total, sum, best) ==
    IF lvs = <<>>
    THEN best.val
    ELSE LET lv == lvs[1]
             m1 == n1 + hist[lv]
             t1 == s1 + lv * hist[lv]
             m2 == total - m1
             t2 == sum - t1
             d == BigAbsDiff(BigMul(BigOfInt(t1), BigOfInt(m2)),
                             BigMul(BigOfInt(t2), BigOfInt(m1)))
             num == BigMul(d, d)
             den == BigMul(BigOfInt(m1), BigOfInt(m2))
             better == BigLess(BigMul(best.num, den), BigMul(num, best.den))
         IN IF m1 = 0 \/ m2 = 0
            THEN OtsuScan(hist, Tail(lvs), m1, t1, total, sum, best)
            ELSE OtsuScan(hist, Tail(lvs), m1, t1, total, sum,
                          IF better THEN [num |-> num, den |-> den, val |-> lv]
                          ELSE best)

RECURSIVE GreySum(_, _)
GreySum(hist, lvs) ==
    IF lvs = <<>> THEN 0 ELSE lvs[1] * hist[lvs[1]] + GreySum(hist, Tail(lvs))

Otsu(im) ==
    LET lvs == Ascending(Levels(im))
        hist == [v \in Levels(im) |-> CountOf(im, v)]
        total == Height(im) * Width(im)
    IN OtsuScan(hist, lvs, 0, 0, total, GreySum(hist, lvs),
                [num |-> <<>>, den |-> <<1>>, val |-> 0])

\* Mutant of ThreshBinary: the comparison includes the threshold.
ThreshBinary_Inclusive(v, thresh) == IF v >= thresh THEN 255 ELSE 0

\* THRESH_BINARY with maxval 255:  dst = src > thresh ? 255 : 0
ThreshBinary(v, thresh) == IF v > thresh THEN 255 ELSE 0

\* cv2.threshold(img, 0, 255, cv2.THRESH_BINARY + cv2.THRESH_OTSU)
threshold(im) ==
    LET t == Otsu(im)
    IN [y \in 1..Height(im) |-> [x \in 1..Width(im) |-> ThreshBinary(im[y][x], t)]]

\* cv2.getStructuringElement(cv2.MORPH_CROSS, (3, 3)), anchored at its centre:
\* the pixels of the image under the cross at (y, x).  Pixels beyond the image
\* do not take part (the default border value of erode and dilate).
Cross(im, y, x) ==
    {p \in {<<y, x>>, <<y - 1, x>>, <<y + 1, x>>, <<y, x - 1>>, <<y, x + 1>>} :
        p[1] \in 1..Height(im) /\ p[2] \in 1..Width(im)}

SetMin(S) == CHOOSE m \in S : \A n \in S : m <= n
SetMax(S) == CHOOSE m \in S : \A n \in S : m >= n

\* cv2.erode(img, kernel): one iteration
erode(im) ==
    [y \in 1..Height(im) |-> [x \in 1..Width(im) |->
        SetMin({im[p[1]][p[2]] : p \in Cross(im, y, x)})]]

\* cv2.dilate(img, kernel): one iteration
dilate(im) ==
    [y \in 1..Height(im) |-> [x \in 1..Width(im) |->
        SetMax({im[p[1]][p[2]] : p \in Cross(im, y, x)})]]

---------------------------------------------------------------------------
\* process_unet_img, postprocess_img, binarize_img
\*
\* A float in [0, 1] is held as its count of units of 1 / (2 * 255), so that
\* v / 255 is exact and a product with 255 may have a fraction for astype to cut.

FloatUnit == 2 * 255

\* Line 83: parts[i] / 255
Normalize(patch) == [y \in 1..Len(patch) |-> [x \in 1..Len(patch[y]) |-> patch[y][x] * 2]]

\* Lines 93-94: (img * 255).astype(np.uint8)
ToUint8(im) ==
    [y \in 1..Len(im) |-> [x \in 1..Len(im[y]) |-> ((im[y][x] * 255) \div FloatUnit) % 256]]

\* The network is opaque: model.predict returns one mask per patch of the
\* batch, of the patch's size, with values in [0, 1].
MaskKinds == {"same", "invert", "zeros"}

Mask(kind, patch) ==
    [y \in 1..Len(patch) |-> [x \in 1..Len(patch[y]) |->
        CASE kind = "same" -> patch[y][x]
          [] kind = "invert" -> FloatUnit - patch[y][x]
          [] OTHER -> 0]]

predict(kind, batch) == [k \in 1..Len(batch) |-> Mask(kind, batch[k])]

\* Mutant of PredictBatch: the patches go to the network last first.
PredictBatch_Reversed(ps) == [k \in 1..Len(ps) |-> ps[Len(ps) + 1 - k]]

\* The batch process_unet_img hands to model.predict (lines 84-86).
PredictBatch(ps) == ps

\* Lines 107-110: preprocess_img returns its argument; process_unet_img is called.
BinarizeImg ==
    /\ pc = "binarize_img"
    /\ pc' = "process_unet_img"
    /\ UNCHANGED <<caller, img, size_y, size_x, s_img, max_y, max_x, border_y, border_x,
                   parts, curr_y, curr_x, imgs, c_img, i, writes, pipeVars, trainVars>>

\* Line 81: split_img(img), with the default size_x and size_y.
ProcessSplit ==
    /\ pc = "process_unet_img"
    /\ size_y' = DefaultSize
    /\ size_x' = DefaultSize
    /\ calls' = Append(calls, "split_img")
    /\ pc' = "split_img"
    /\ UNCHANGED <<caller, img, s_img, max_y, max_x, border_y, border_x,
                   parts, curr_y, curr_x, imgs, c_img, i, writes,
                   out, predict_args, predict_ret, combine_args, trainVars>>

\* Lines 82-85.
ProcessNormalize ==
    /\ pc = "p_normalize"
    /\ parts' = [k \in 1..Len(parts) |-> Normalize(parts[k])]
    /\ pc' = "p_predict"
    /\ UNCHANGED <<caller, img, size_y, size_x, s_img, max_y, max_x, border_y, border_x,
                   curr_y, curr_x, imgs, c_img, i, writes, pipeVars, trainVars>>

\* Line 86: parts = model.predict(parts, batchsize)
ProcessPredict ==
    /\ pc = "p_predict"
    /\ \E kind \in MaskKinds :
          /\ parts' = predict(kind, PredictBatch(parts))
          /\ predict_ret' = Append(predict_ret, predict(kind, PredictBatch(parts)))
    /\ predict_args' = Append(predict_args, PredictBatch(parts))
    /\ calls' = Append(calls, "predict")
    /\ pc' = "p_reshape"
    /\ UNCHANGED <<caller, img, size_y, size_x, s_img, max_y, max_x, border_y, border_x,
                   curr_y, curr_x, imgs, c_img, i, writes, out, combine_args, trainVars>>

\* Lines 87-92: the masks, reshaped to (128, 128), go to
\* combine_imgs(parts, border_y, border_x, img.shape[0], img.shape[1]).
ProcessCombine ==
    /\ pc = "p_reshape"
    /\ imgs' = parts
    /\ combine_args' = Append(combine_args,
                              [imgs |-> parts, border_y |-> border_y, border_x |-> border_x,
                               max_y |-> Height(img), max_x |-> Width(img)])
    /\ calls' = Append(calls, "combine_imgs")
    /\ pc' = "combine_imgs"
    /\ UNCHANGED <<caller, img, size_y, size_x, s_img, max_y, max_x, border_y, border_x,
                   parts, curr_y, curr_x, c_img, i, writes,
                   out, predict_args, predict_ret, trainVars>>

\* Lines 93-95, then line 111: postprocess_img is called on the result.
ProcessScale ==
    /\ pc = "p_scale"
    /\ out' = ToUint8(c_img)
    /\ calls' = Append(calls, "postprocess_img")
    /\ pc' = "postprocess_img"
    /\ UNCHANGED <<caller, img, size_y, size_x, s_img, max_y, max_x, border_y, border_x,
                   parts, curr_y, curr_x, imgs, c_img, i, writes,
                   predict_args, predict_ret, combine_args, trainVars>>

\* Line 100.
PostThreshold ==
    /\ pc = "postprocess_img"
    /\ out' = threshold(out)
    /\ pc' = "post_erode"
    /\ UNCHANGED <<caller, img, size_y, size_x, s_img, max_y, max_x, border_y, border_x,
                   parts, curr_y, curr_x, imgs, c_img, i, writes,
                   calls, predict_args, predict_ret, combine_args, trainVars>>

\* Lines 101-102.
PostErode ==
    /\ pc = "post_erode"
    /\ out' = erode(out)
    /\ pc' = "post_dilate"
    /\ UNCHANGED <<caller, img, size_y, size_x, s_img, max_y, max_x, border_y, border_x,
                   parts, curr_y, curr_x, imgs, c_img, i, writes,
                   calls, predict_args, predict_ret, combine_args, trainVars>>

\* Lines 103-104 (and line 112 when called from binarize_img).
PostDilate ==
    /\ pc = "post_dilate"
    /\ out' = dilate(out)
    /\ pc' = "post_returned"
    /\ UNCHANGED <<caller, img, size_y, size_x, s_img, max_y, max_x, border_y, border_x,
                   parts, curr_y, curr_x, imgs, c_img, i, writes,
                   calls, predict_args, predict_ret, combine_args, trainVars>>

---------------------------------------------------------------------------
\* unet/train.py: main, and gen_data, which is a generator function (it
\* yields at line 113): calling it builds a generator object and runs none of
\* its body; the body runs, up to the first yield, at the first next().

TmpDirs == {"tmp", "tmp/train", "tmp/train/in", "tmp/train/gt",
            "tmp/validation", "tmp/validation/in", "tmp/validation/gt"}

Parent(d) ==
    CASE d \in {"tmp/train", "tmp/validation"} -> "tmp"
      [] d \in {"tmp/train/in", "tmp/train/gt"} -> "tmp/train"
      [] d \in {"tmp/validation/in", "tmp/validation/gt"} -> "tmp/validation"
      [] OTHER -> ""

\* os.mkdir over a sequence of paths, as lines 62-66 call it: the first path
\* that exists raises FileExistsError and ends the sequence.
RECURSIVE mkdirs(_, _)
mkdirs(dirs, paths) ==
    IF paths = <<>> THEN [ok |-> TRUE, fs |-> dirs]
    ELSE IF paths[1] \in dirs THEN [ok |-> FALSE, fs |-> dirs]
    ELSE mkdirs(dirs \cup {paths[1]}, Tail(paths))

\* Lines 62-66 of gen_data for the directory dname.
GenDataDirs(dirs, dname) == mkdirs(dirs, <<dname, dname \o "/in", dname \o "/gt">>)

\* What gen_data(...) does when main calls it (lines 194 and 200).
GenDataCall == "created"

\* Lines 154-189: parse the arguments, mkdir_s(tmp).
MainSetup ==
    /\ pc = "main"
    /\ fs' = fs \cup {"tmp"}
    /\ pc' = "m_train_generator"
    /\ UNCHANGED <<caller, img, size_y, size_x, s_img, max_y, max_x, border_y, border_x,
                   parts, curr_y, curr_x, imgs, c_img, i, writes, pipeVars,
                   train_generator, validation_generator, model, gpus, fit_steps>>

\* Lines 191-195: train_generator = gen_data(train_dir, ...)
MainTrainGenerator ==
    /\ pc = "m_train_generator"
    /\ train_generator' = GenDataCall
    /\ pc' = "m_validation_generator"
    /\ UNCHANGED <<caller, img, size_y, size_x, s_img, max_y, max_x, border_y, border_x,
                   parts, curr_y, curr_x, imgs, c_img, i, writes, pipeVars,
                   fs, validation_generator, model, gpus, fit_steps>>

\* Lines 197-201: validation_generator = gen_data(validation_dir, ...)
MainValidationGenerator ==
    /\ pc = "m_validation_generator"
    /\ validation_generator' = GenDataCall
    /\ pc' = "m_unet"
    /\ UNCHANGED <<caller, img, size_y, size_x, s_img, max_y, max_x, border_y, border_x,
                   parts, curr_y, curr_x, imgs, c_img, i, writes, pipeVars,
                   fs, train_generator, model, gpus, fit_steps>>

\* Lines 203-206: model = unet(), the callbacks.
MainUnet ==
    /\ pc = "m_unet"
    /\ model' = "built"
    /\ pc' = "m_compile"
    /\ UNCHANGED <<caller, img, size_y, size_x, s_img, max_y, max_x, border_y, border_x,
                   parts, curr_y, curr_x, imgs, c_img, i, writes, pipeVars,
                   fs, train_generator, validation_generator, gpus, fit_steps>>

\* Line 208 (one GPU) or lines 218-219 (multi_gpu_model): compile; then
\* fit_generator is entered.
MainCompile ==
    /\ pc = "m_compile"
    /\ model' = IF gpus = 1 THEN "compiled" ELSE "compiled_multi_gpu"
    /\ pc' = "m_fit"
    /\ UNCHANGED <<caller, img, size_y, size_x, s_img, max_y, max_x, border_y, border_x,
                   parts, curr_y, curr_x, imgs, c_img, i, writes, pipeVars,
                   fs, train_generator, validation_generator, gpus, fit_steps>>

\* fit_generator (lines 209-216 or 220-227) draws a training batch: the first
\* next(train_generator) runs gen_data's body from line 62.
FitTrainBatch ==
    /\ pc = "m_fit"
    /\ fit_steps < MaxFitSteps
    /\ fit_steps' = fit_steps + 1
    /\ IF train_generator = "created"
       THEN LET r == GenDataDirs(fs, "tmp/train")
            IN /\ fs' = r.fs
               /\ train_generator' = IF r.ok THEN "suspended" ELSE "raised"
               /\ pc' = IF r.ok THEN "m_fit" ELSE "m_aborted"
               /\ model' = IF r.ok THEN "fitting" ELSE model
       ELSE /\ model' = "fitting"
            /\ UNCHANGED <<fs, train_generator, pc>>
    /\ UNCHANGED <<caller, img, size_y, size_x, s_img, max_y, max_x, border_y, border_x,
                   parts, curr_y, curr_x, imgs, c_img, i, writes, pipeVars,
                   validation_generator, gpus>>

\* fit_generator draws a validation batch, after the first training steps.
FitValidationBatch ==
    /\ pc = "m_fit"
    /\ train_generator = "suspended"
    /\ fit_steps < MaxFitSteps
    /\ fit_steps' = fit_steps + 1
    /\ IF validation_generator = "created"
       THEN LET r == GenDataDirs(fs, "tmp/validation")
            IN /\ fs' = r.fs
               /\ validation_generator' = IF r.ok THEN "suspended" ELSE "raised"
               /\ pc' = IF r.ok THEN "m_fit" ELSE "m_aborted"
       ELSE UNCHANGED <<fs, validation_generator, pc>>
    /\ UNCHANGED <<caller, img, size_y, size_x, s_img, max_y, max_x, border_y, border_x,
                   parts, curr_y, curr_x, imgs, c_img, i, writes, pipeVars,
                   train_generator, model, gpus>>

\* fit_generator returns; lines 229-234: shutil.rmtree(tmp).
MainFinish ==
    /\ pc = "m_fit"
    /\ train_generator = "suspended"
    /\ validation_generator = "suspended"
    /\ model' = "fitted"
    /\ fs' = fs \ TmpDirs
    /\ pc' = "m_done"
    /\ UNCHANGED <<caller, img, size_y, size_x, s_img, max_y, max_x, border_y, border_x,
                   parts, curr_y, curr_x, imgs, c_img, i, writes, pipeVars,
                   train_generator, validation_generator, gpus, fit_steps>>

---------------------------------------------------------------------------
\* A direct caller of the two functions: split_img(img, size_x, size_y), then
\* combine_imgs on the returned list or on the list less its last patches.

\* Test images: every pixel tagged with its position, all white, all black.
TagImg(h, w) == [y \in 1..h |-> [x \in 1..w |-> (y - 1) * w + x]]

TestImages ==
    UNION {{TagImg(h, w), ConstImg(h, w, 255), ConstImg(h, w, 0)} :
           h \in 1..MaxDim, w \in 1..MaxDim}

\* A 150 x 150 image of 64 x 64 blocks, each block of one grey level.
BlockImg(h, w) == [y \in 1..h |-> [x \in 1..w |-> 40 * ((y - 1) \div 64) + 10 * ((x - 1) \div 64) + 5]]

PipeIdle ==
    /\ out = <<>>
    /\ calls = <<>>
    /\ predict_args = <<>>
    /\ predict_ret = <<>>
    /\ combine_args = <<>>

TrainIdle ==
    /\ fs = {}
    /\ train_generator = "none"
    /\ validation_generator = "none"
    /\ model = "none"
    /\ gpus = 1
    /\ fit_steps = 0

TileIdle ==
    /\ size_y = 0
    /\ size_x = 0
    /\ s_img = <<>>
    /\ max_y = 0
    /\ max_x = 0
    /\ border_y = 0
    /\ border_x = 0
    /\ parts = <<>>
    /\ curr_y = 0
    /\ curr_x = 0
    /\ imgs = <<>>
    /\ c_img = <<>>
    /\ i = 0
    /\ writes = <<>>

InitTile ==
    /\ pc = "split_img"
    /\ caller = "test"
    /\ PipeIdle
    /\ TrainIdle
    /\ \/ /\ img \in TestImages
          /\ size_y \in 1..MaxSize
          /\ size_x \in 1..MaxSize
       \/ /\ img = BlockImg(150, 150)
          /\ size_y = DefaultSize
          /\ size_x = DefaultSize
    /\ s_img = <<>>
    /\ max_y = 0
    /\ max_x = 0
    /\ border_y = 0
    /\ border_x = 0
    /\ parts = <<>>
    /\ curr_y = 0
    /\ curr_x = 0
    /\ imgs = <<>>
    /\ c_img = <<>>
    /\ i = 0
    /\ writes = <<>>

CallCombine ==
    /\ pc = "split_returned"
    /\ \E d \in 0..Min(MaxDrop, Len(parts)) :
          imgs' = SubSeq(parts, 1, Len(parts) - d)
    /\ pc' = "combine_imgs"
    /\ UNCHANGED <<caller, img, size_y, size_x, s_img, max_y, max_x, border_y, border_x,
                   parts, curr_y, curr_x, c_img, i, writes,
                   pipeVars, trainVars>>

NextTile ==
    \/ SplitPad
    \/ SplitRowBegin
    \/ SplitWindow
    \/ SplitRowEnd
    \/ SplitReturn
    \/ CallCombine
    \/ CombineBegin
    \/ CombineRowBegin
    \/ CombineWindow
    \/ CombineRowEnd
    \/ CombineReturn

SpecTile == InitTile /\ [][NextTile]_vars

\* binarize_img(img, model) on images of 1..MaxOver pixels, or of one patch
\* and 1..MaxOver pixels, along each axis.
PipeDims == (1..MaxOver) \cup {DefaultSize + k : k \in 1..MaxOver}

InitPipe ==
    /\ pc = "binarize_img"
    /\ caller = "process_unet_img"
    /\ \E h \in PipeDims, w \in PipeDims : img = BlockImg(h, w)
    /\ TileIdle
    /\ PipeIdle
    /\ TrainIdle

NextPipe ==
    \/ BinarizeImg
    \/ ProcessSplit
    \/ SplitPad
    \/ SplitRowBegin
    \/ SplitWindow
    \/ SplitRowEnd
    \/ SplitReturn
    \/ ProcessNormalize
    \/ ProcessPredict
    \/ ProcessCombine
    \/ CombineBegin
    \/ CombineRowBegin
    \/ CombineWindow
    \/ CombineRowEnd
    \/ CombineReturn
    \/ ProcessScale
    \/ PostThreshold
    \/ PostErode
    \/ PostDilate

SpecPipe == InitPipe /\ [][NextPipe]_vars

\* postprocess_img(img) on 8-bit images of up to MaxPostDim x MaxPostDim
\* pixels: constant images, and images of one pixel of one level on a
\* background of another.
PostLevels == {0, 1, 100, 254, 255}

DotImg(h, w, bg, fg, py, px) ==
    [y \in 1..h |-> [x \in 1..w |-> IF y = py /\ x = px THEN fg ELSE bg]]

PostImages ==
    UNION {{DotImg(h, w, bg, fg, py, px) :
                bg \in PostLevels, fg \in PostLevels, py \in 1..h, px \in 1..w} :
           h \in 1..MaxPostDim, w \in 1..MaxPostDim}

InitPost ==
    /\ pc = "postprocess_img"
    /\ caller = "test"
    /\ img \in PostImages
    /\ out = img
    /\ calls = <<>>
    /\ predict_args = <<>>
    /\ predict_ret = <<>>
    /\ combine_args = <<>>
    /\ TileIdle
    /\ TrainIdle

NextPost ==
    \/ PostThreshold
    \/ PostErode
    \/ PostDilate

SpecPost == InitPost /\ [][NextPost]_vars

\* main() of train.py, started with any of the temporary directories already
\* there (a directory exists only inside an existing parent).
InitTrain ==
    /\ pc = "main"
    /\ caller = "test"
    /\ img = <<>>
    /\ TileIdle
    /\ PipeIdle
    /\ fs \in {d \in SUBSET TmpDirs : \A x \in d : Parent(x) = "" \/ Parent(x) \in d}
    /\ train_generator = "none"
    /\ validation_generator = "none"
    /\ model = "none"
    /\ gpus \in {1, 2}
    /\ fit_steps = 0

NextTrain ==
    \/ MainSetup
    \/ MainTrainGenerator
    \/ MainValidationGenerator
    \/ MainUnet
    \/ MainCompile
    \/ FitTrainBatch
    \/ FitValidationBatch
    \/ MainFinish

SpecTrain == InitTrain /\ [][NextTrain]_vars

---------------------------------------------------------------------------
\* Properties of split_img and combine_imgs (checked under SpecTile).

\* The padded image exists: split_img is past line 25.
Padded == s_img # <<>>

\* split_img (called directly) is scanning or has returned; parts is its list.
Splitting == pc \in {"split_outer", "split_inner", "split_returned"}

PaddedHeight == Height(img) + 2 * border_y
PaddedWidth == Width(img) + 2 * border_x

CeilDiv(a, b) == (a + b - 1) \div b

\* n is the least integer with n >= a / 2
IsCeilHalf(n, a) == 2 * n >= a /\ 2 * (n - 1) < a

\* C1: combine_imgs applied to what split_img returned gives an image of the
\* original height and width that equals the original at every pixel.
C1_RoundTrip ==
    (pc = "combine_returned" /\ imgs = parts) =>
        /\ Height(c_img) = Height(img)
        /\ \A y \in 1..Height(c_img) :
              /\ Len(c_img[y]) = Width(img)
              /\ \A x \in 1..Width(img) : c_img[y][x] = img[y][x]

\* C1 witness: a round trip of a position-tagged image over several patches,
\* with a border on both axes and a padded height that is no multiple of size_y.
C1_Witness ==
    /\ pc = "combine_returned"
    /\ imgs = parts
    /\ Len(parts) >= 4
    /\ border_y > 0
    /\ border_x > 0
    /\ PaddedHeight % size_y # 0
    /\ img = TagImg(Height(img), Width(img))

\* C2 as stated: after padding, the padded height and width are exact
\* multiples of size_y and size_x.
C2_PaddedExactMultiple ==
    Padded =>
        /\ Height(s_img) = PaddedHeight
        /\ Width(s_img) = PaddedWidth
        /\ PaddedHeight % size_y = 0
        /\ PaddedWidth % size_x = 0

\* The remainder the padding leaves on an axis: none when the axis was a
\* multiple of the size or the gap to the next multiple is even, else 1.
PadRemainder(max, size) ==
    IF max % size # 0 /\ (size - (max % size)) % 2 = 1 THEN 1 ELSE 0

\* C2 amended: the padded height (width) is an exact multiple of size_y
\* (size_x) when the gap size - max % size is even or the axis needed no
\* padding, and exceeds an exact multiple by one pixel when the gap is odd.
C2_PaddedMultipleOrOneMore ==
    Padded =>
        /\ Height(s_img) = PaddedHeight
        /\ Width(s_img) = PaddedWidth
        /\ PaddedHeight % size_y = PadRemainder(Height(img), size_y)
        /\ PaddedWidth % size_x = PadRemainder(Width(img), size_x)
        /\ PaddedHeight >= size_y
        /\ PaddedWidth >= size_x

\* C2 witness: a padded image whose height exceeds a multiple of size_y by one
\* and whose width is an exact multiple of size_x reached by padding.
C2_Witness ==
    /\ Padded
    /\ pc = "split_outer"
    /\ PaddedHeight % size_y = 1
    /\ border_x > 0
    /\ PaddedWidth % size_x = 0

\* C3 as stated: the number of patches is
\* ceil(padded_height / size_y) * ceil(padded_width / size_x).
C3_PatchCountCeil ==
    pc = "split_returned" =>
        Len(parts) = CeilDiv(PaddedHeight, size_y) * CeilDiv(PaddedWidth, size_x)

\* C3 amended: the number of patches is
\* floor(padded_height / size_y) * floor(padded_width / size_x).
C3_PatchCountFloor ==
    pc = "split_returned" =>
        Len(parts) = (PaddedHeight \div size_y) * (PaddedWidth \div size_x)

\* C3 witness: split_img returned several patches of an image whose padded
\* width is no multiple of size_x.
C3_Witness ==
    /\ pc = "split_returned"
    /\ Len(parts) >= 2
    /\ PaddedWidth % size_x # 0

\* C4: border = ceil((size - max % size) / 2) when max % size != 0, else 0,
\* on each axis; the same border lies on both sides of the axis (the original
\* pixels sit at offset (border_y, border_x), everything else is PadValue); and
\* a 150x150 image at 128x128 gets border 53, padded size 256x256, 4 patches.
C4_BorderFormula ==
    /\ Padded =>
        /\ IF Height(img) % size_y # 0
           THEN IsCeilHalf(border_y, size_y - (Height(img) % size_y))
           ELSE border_y = 0
        /\ IF Width(img) % size_x # 0
           THEN IsCeilHalf(border_x, size_x - (Width(img) % size_x))
           ELSE border_x = 0
        /\ Height(s_img) = Height(img) + 2 * border_y
        /\ \A y \in 1..Height(s_img) :
              /\ Len(s_img[y]) = Width(img) + 2 * border_x
              /\ \A x \in 1..Len(s_img[y]) :
                    s_img[y][x] =
                        IF /\ y > border_y /\ y <= border_y + Height(img)
                           /\ x > border_x /\ x <= border_x + Width(img)
                        THEN img[y - border_y][x - border_x]
                        ELSE PadValue
    /\ (Padded /\ Height(img) = 150 /\ Width(img) = 150
            /\ size_y = 128 /\ size_x = 128) =>
          /\ border_y = 53
          /\ border_x = 53
          /\ Height(s_img) = 256
          /\ Width(s_img) = 256
          /\ pc = "split_returned" => Len(parts) = 4

\* C4 witness: the 150x150 image has been split at 128x128.
C4_Witness ==
    /\ pc = "split_returned"
    /\ Height(img) = 150
    /\ Width(img) = 150
    /\ size_y = 128
    /\ size_x = 128
    /\ border_y = 53

\* Number of patch columns of the padded image.
PatchColumns == Width(s_img) \div size_x

\* C5: the k-th patch (from 0) is the full size_y x size_x window of the
\* padded image with its top-left corner at row (k div C) * size_y and column
\* (k mod C) * size_x, at every moment of the scan and on return.
C5_RowMajor ==
    Splitting =>
        \A k \in 0..(Len(parts) - 1) :
            LET top == (k \div PatchColumns) * size_y
                left == (k % PatchColumns) * size_x
                p == parts[k + 1]
            IN /\ Len(p) = size_y
               /\ \A r \in 1..size_y :
                     /\ Len(p[r]) = size_x
                     /\ \A c \in 1..size_x : p[r][c] = s_img[top + r][left + c]

\* C5 witness: a 2 x 2 grid (or larger) of patches of a tagged image, cut from
\* a padded image that leaves a remainder column.
C5_Witness ==
    /\ pc = "split_returned"
    /\ PatchColumns >= 2
    /\ Len(parts) >= 2 * PatchColumns
    /\ size_x # size_y
    /\ img = TagImg(Height(img), Width(img))

\* The number of windows of the stitch grid: those that lie fully inside the
\* canvas.
GridCells == (PaddedHeight \div size_y) * (PaddedWidth \div size_x)

\* C6 as stated: combine_imgs called with a non-empty list of fewer patches
\* than the grid requires raises and returns no image.
C6_InsufficientPatchesRaise ==
    (pc \in {"combine_returned", "combine_raised"}
        /\ Len(imgs) > 0 /\ Len(imgs) < GridCells) => pc = "combine_raised"

\* combine_imgs is scanning or has returned.
Combining == pc \in {"combine_outer", "combine_inner", "combine_returned"}

\* C10 (states): 0 <= i <= len(imgs); i counts the window writes that
\* succeeded; the k-th write stored patch k, whole, in the k-th window in
\* raster order that lies fully inside the canvas, which is the window
\* split_img cut the patch from.
C10_IndexInv ==
    Combining =>
        /\ 0 <= i
        /\ i <= Len(imgs)
        /\ i = Len(writes)
        /\ \A n \in 1..Len(writes) :
              LET w == writes[n]
                  cols == PaddedWidth \div size_x
              IN /\ w.k = n - 1
                 /\ w.h = size_y
                 /\ w.w = size_x
                 /\ w.y = ((n - 1) \div cols) * size_y
                 /\ w.x = ((n - 1) % cols) * size_x
                 /\ w.y + size_y <= PaddedHeight
                 /\ w.x + size_x <= PaddedWidth
                 /\ imgs[n] = Window(s_img, w.y, w.x, size_y, size_x)

---------------------------------------------------------------------------
\* Properties of the training driver (checked under SpecTrain).

\* C7 as stated: gen_data has created the directories of the train and of the
\* validation set before the model is constructed, compiled or fitted, and a
\* run that a directory failure aborts has done no model work.
C7_DirsBeforeModel ==
    /\ model # "none" =>
          /\ train_generator = "suspended"
          /\ validation_generator = "suspended"
    /\ pc = "m_aborted" => model = "none"

---------------------------------------------------------------------------
\* Properties of binarize_img / process_unet_img (checked under SpecPipe).

CallOrder == <<"split_img", "predict", "combine_imgs", "postprocess_img">>

\* C8: the calls of one binarize_img are split_img, predict, combine_imgs,
\* postprocess_img, each once and in this order; predict receives every patch
\* of the padded image in row-major order, divided by 255, in one batch;
\* combine_imgs receives the masks predict returned, in its order, with the
\* borders of split_img and the height and width of the original image.
C8_PredictOnceInOrder ==
    /\ Len(calls) <= Len(CallOrder)
    /\ calls = SubSeq(CallOrder, 1, Len(calls))
    /\ Len(predict_args) = (IF Len(calls) >= 2 THEN 1 ELSE 0)
    /\ Len(predict_ret) = Len(predict_args)
    /\ Len(combine_args) = (IF Len(calls) >= 3 THEN 1 ELSE 0)
    /\ (pc = "post_returned" /\ caller = "process_unet_img") => calls = CallOrder
    /\ predict_args # <<>> =>
          LET batch == predict_args[1]
              cols == Width(s_img) \div DefaultSize
              rows == Height(s_img) \div DefaultSize
          IN /\ s_img = copyMakeBorder(img, Border(Height(img), DefaultSize),
                                       Border(Height(img), DefaultSize),
                                       Border(Width(img), DefaultSize),
                                       Border(Width(img), DefaultSize), PadValue)
             /\ Len(batch) = rows * cols
             /\ \A k \in 0..(Len(batch) - 1) :
                   batch[k + 1] =
                       Normalize(Slice(s_img,
                                       (k \div cols) * DefaultSize,
                                       (k \div cols) * DefaultSize + DefaultSize,
                                       (k % cols) * DefaultSize,
                                       (k % cols) * DefaultSize + DefaultSize))
    /\ combine_args # <<>> =>
          /\ combine_args[1].imgs = predict_ret[1]
          /\ Len(predict_ret[1]) = Len(predict_args[1])
          /\ combine_args[1].border_y = Border(Height(img), DefaultSize)
          /\ combine_args[1].border_x = Border(Width(img), DefaultSize)
          /\ combine_args[1].max_y = Height(img)
          /\ combine_args[1].max_x = Width(img)
    /\ (caller = "process_unet_img"
            /\ pc \in {"postprocess_img", "post_erode", "post_dilate", "post_returned"}) =>
          /\ i = Len(imgs)
          /\ imgs = predict_ret[1]
          /\ Height(out) = Height(img)
          /\ Width(out) = Width(img)

\* C8 witness: binarize_img has returned for an image of 2 x 2 patches, of
\* which the first two differ.
C8_Witness ==
    /\ pc = "post_returned"
    /\ caller = "process_unet_img"
    /\ Len(predict_args[1]) = 4
    /\ predict_args[1][1] # predict_args[1][2]
    /\ predict_args[1][1] # predict_args[1][3]

---------------------------------------------------------------------------
\* Properties of postprocess_img (checked under SpecPost).

IsConst(im, v) == \A y \in 1..Len(im) : \A x \in 1..Len(im[y]) : im[y][x] = v

====
